---- MODULE Spec2Model ----
(***************************************************************************)
(* Model of src/main.py: compare_records (greedy fuzzy reconciliation of   *)
(* website records against Zotero records) followed by print_report.       *)
(*                                                                         *)
(* Python object references are modelled as 1-based indexes into the input *)
(* lists (0 is None).  Strings that the code indexes or slices             *)
(* (firstName[0], authors[:-2]) are sequences of one-character strings.    *)
(***************************************************************************)
EXTENDS Naturals, Integers, Sequences, FiniteSets, TLC

VARIABLES
    website_records,  \* main.py:30  list of {"title"}
    zotero_records,   \* main.py:31  list of {"title","authors","date","url"}
    match_threshold,  \* main.py:66  parameter of compare_records
    scores,           \* the scorer behind process.extract: query -> choice -> 0..100
    pc,               \* position: "compare", "report", "rows", "done", "error"
    raised,           \* "none", "ValueError" (main.py:72), "IndexError" (main.py:60)
    idx,              \* 1-based position of the loop at main.py:69
    zotero_titles,    \* main.py:68  the pool
    summary,          \* main.py:67  the list of Match
    output,           \* the rows written to results.tsv
    row               \* 1-based position of the loop at main.py:55

vars == <<website_records, zotero_records, match_threshold, scores, pc, raised,
          idx, zotero_titles, summary, output, row>>

----------------------------------------------------------------------------
(* Bounds of the model *)

MaxWeb == 3
MaxCat == 2
MaxOutcomes == 3
MaxAuthors == 3

DefaultThreshold == 90

(* Input domains *)

Titles == {"a", "b"}

\* Scores of two different titles: at the default threshold, above it, and full.
ScoreVals == {90, 95, 100}

Thresholds == {DefaultThreshold, 95}

Jane  == [firstName |-> <<"J", "a">>, lastName |-> <<"D", "o">>, creatorType |-> "author"]
Smith == [firstName |-> <<"A">>,      lastName |-> <<"S", "m">>, creatorType |-> "editor"]
Jones == [firstName |-> <<"B">>,      lastName |-> <<"J", "o">>, creatorType |-> "author"]
Roe   == [firstName |-> <<>>,         lastName |-> <<"R", "o">>, creatorType |-> "author"]

Creators == {Jane, Smith, Jones, Roe}

TheDate == [year |-> 2020, month |-> 1, day |-> 15]
TheUrl == "http://x"

SeqsUpTo(S, n) == UNION {[1..k -> S] : k \in 0..n}

\* Author lists of the records that go through the whole pipeline.
PipelineAuthorLists == {<<>>, <<Jane>>, <<Roe>>}

WebRecord(t) == [title |-> t]
ZoteroRecord(t, a) == [title |-> t, authors |-> a, date |-> TheDate, url |-> TheUrl]

----------------------------------------------------------------------------
(* Match and MatchType, main.py:15-26 *)

MatchTypes == {"success", "not_found_on_zotero", "not_found_on_website"}

Match(type, ratio, web_record, zotero_record) ==
    [type |-> type, ratio |-> ratio, web_record |-> web_record,
     zotero_record |-> zotero_record]

----------------------------------------------------------------------------
(* Helpers of compare_records *)

Max(S) == CHOOSE m \in S : \A x \in S : x <= m

\* get_record_by_title, main.py:118-122: the first record with that title, or None.
get_record_by_title(records, title) ==
    IF \E j \in 1..Len(records) : records[j].title = title
    THEN CHOOSE j \in 1..Len(records) :
             /\ records[j].title = title
             /\ \A k \in 1..(j - 1) : records[k].title # title
    ELSE 0

\* A mutant of list.remove that drops every equal element.
RemoveAll(list, x) == SelectSeq(list, LAMBDA y : y # x)

\* list.remove(x), main.py:77: drops the first element equal to x.
Remove(list, x) ==
    LET j == CHOOSE j \in 1..Len(list) :
                 list[j] = x /\ \A k \in 1..(j - 1) : list[k] # x
    IN  SubSeq(list, 1, j - 1) \o SubSeq(list, j + 1, Len(list))

\* The scores process.extract reports for the query against the pool, main.py:70.
\* extract keeps the 5 best choices, so the best score of the pool is among them.
ExtractScores(query, pool) == {scores[query][pool[j]] : j \in 1..Len(pool)}

\* max(list(ratios.keys())), main.py:72.
max_closeness(query, pool) == Max(ExtractScores(query, pool))

\* ratios[max_closeness], main.py:71 and 74.  The inverted dict keeps one title
\* per score; which of several equally scored titles it keeps depends on the
\* order process.extract returns them in, so any of them may be the one.
MatchTitles(query, pool) ==
    {pool[j] : j \in {k \in 1..Len(pool) :
                          scores[query][pool[k]] = max_closeness(query, pool)}}

\* A mutant of the comparison at main.py:73 that accepts a score at the threshold.
AcceptsAtThreshold(closeness, threshold) == closeness >= threshold

\* max_closeness > match_threshold, main.py:73.
Accepts(closeness, threshold) == closeness > threshold

\* The loop at main.py:80-81 over the titles left in the pool.
RECURSIVE Remainder(_, _)
Remainder(records, titles) ==
    IF titles = <<>> THEN <<>>
    ELSE <<Match("not_found_on_website", 0, 0,
                 get_record_by_title(records, Head(titles)))>>
         \o Remainder(records, Tail(titles))

----------------------------------------------------------------------------
(* compare_records, main.py:66-82 *)

\* One iteration of the loop at main.py:69-79 with a non-empty pool.
CompareStep ==
    /\ pc = "compare"
    /\ idx <= Len(website_records)
    /\ zotero_titles # <<>>
    /\ LET web_title == website_records[idx].title
           closeness == max_closeness(web_title, zotero_titles)
       IN  IF Accepts(closeness, match_threshold)
           THEN \E match_title \in MatchTitles(web_title, zotero_titles) :
                    /\ summary' = Append(summary,
                           Match("success", closeness, idx,
                                 get_record_by_title(zotero_records, match_title)))
                    /\ zotero_titles' = Remove(zotero_titles, match_title)
           ELSE /\ summary' = Append(summary,
                           Match("not_found_on_zotero", closeness, idx, 0))
                /\ UNCHANGED zotero_titles
    /\ idx' = idx + 1
    /\ UNCHANGED <<website_records, zotero_records, match_threshold, scores, pc,
                   raised, output, row>>

\* One iteration with an empty pool: process.extract returns [], and max([])
\* at main.py:72 raises ValueError.
CompareRaise ==
    /\ pc = "compare"
    /\ idx <= Len(website_records)
    /\ zotero_titles = <<>>
    /\ pc' = "error"
    /\ raised' = "ValueError"
    /\ UNCHANGED <<website_records, zotero_records, match_threshold, scores, idx,
                   zotero_titles, summary, output, row>>

\* main.py:80-82: the loop over the remaining titles, and the return.
CompareReturn ==
    /\ pc = "compare"
    /\ idx > Len(website_records)
    /\ summary' = summary \o Remainder(zotero_records, zotero_titles)
    /\ pc' = "report"
    /\ UNCHANGED <<website_records, zotero_records, match_threshold, scores, raised,
                   idx, zotero_titles, output, row>>

----------------------------------------------------------------------------
(* Helpers of print_report *)

\* The rows of results.tsv.  A row is a record of its tab-separated fields.
SummaryRow(what, n) == [kind |-> "summary", what |-> what, n |-> n]
CaptionRow(section) == [kind |-> "caption", section |-> section]
ColumnsRow(section) == [kind |-> "columns", section |-> section]
MatchRow(web, zotero, name, ratio) ==
    [kind |-> "match_row", web |-> web, zotero |-> zotero, name |-> name,
     ratio |-> ratio]
WebRow(web) == [kind |-> "web_row", web |-> web]
ZoteroRow(title, authors, url, date) ==
    [kind |-> "zotero_row", title |-> title, authors |-> authors, url |-> url,
     date |-> date]

\* A mutant of the list comprehensions that counts every outcome.
OfTypeAll(results_summary, type) == results_summary

\* [match for match in results_summary if match.type == type], main.py:37-39.
OfType(results_summary, type) ==
    SelectSeq(results_summary, LAMBDA match : match.type = type)

\* The loop at main.py:46-49.
RECURSIVE SuccessRows(_, _, _)
SuccessRows(results_summary, web, zotero) ==
    IF results_summary = <<>> THEN <<>>
    ELSE LET match == Head(results_summary)
         IN  (IF match.type = "success"
              THEN <<MatchRow(web[match.web_record].title,
                              zotero[match.zotero_record].title,
                              match.type, match.ratio)>>
              ELSE <<>>)
             \o SuccessRows(Tail(results_summary), web, zotero)

\* The loop at main.py:51-53.
RECURSIVE WebsiteRows(_, _)
WebsiteRows(results_summary, web) ==
    IF results_summary = <<>> THEN <<>>
    ELSE LET match == Head(results_summary)
         IN  (IF match.type = "not_found_on_zotero"
              THEN <<WebRow(web[match.web_record].title)>>
              ELSE <<>>)
             \o WebsiteRows(Tail(results_summary), web)

\* f'{author["firstName"][0]}.{author["lastName"]}, ', main.py:60.
AuthorText(author) ==
    <<Head(author.firstName), ".">> \o author.lastName \o <<",", " ">>

\* A mutant of the loop at main.py:58-60 without the creatorType test.
RECURSIVE AuthorsLoopUnfiltered(_)
AuthorsLoopUnfiltered(creators) ==
    IF creators = <<>> THEN <<>>
    ELSE AuthorText(Head(creators)) \o AuthorsLoopUnfiltered(Tail(creators))

\* The loop at main.py:57-60: authors += ... for each creator of type "author".
RECURSIVE AuthorsLoop(_)
AuthorsLoop(creators) ==
    IF creators = <<>> THEN <<>>
    ELSE (IF Head(creators).creatorType = "author"
          THEN AuthorText(Head(creators))
          ELSE <<>>)
         \o AuthorsLoop(Tail(creators))

\* authors[:-2], main.py:61.
DropLastTwo(text) == SubSeq(text, 1, Len(text) - 2)

\* author["firstName"][0] at main.py:60 raises IndexError on an empty firstName.
AuthorsRaise(creators) ==
    \E j \in 1..Len(creators) :
        creators[j].creatorType = "author" /\ creators[j].firstName = <<>>

DigitChars == <<"0", "1", "2", "3", "4", "5", "6", "7", "8", "9">>
Digit(n) == DigitChars[n + 1]

\* date.strftime('%Y/%m/%d'), main.py:63.
Strftime(date) ==
    <<Digit(date.year \div 1000), Digit((date.year \div 100) % 10),
      Digit((date.year \div 10) % 10), Digit(date.year % 10), "/",
      Digit(date.month \div 10), Digit(date.month % 10), "/",
      Digit(date.day \div 10), Digit(date.day % 10)>>

----------------------------------------------------------------------------
(* print_report, main.py:36-63 *)

\* main.py:37-54: the counts, the first two sections and the header of the third.
WriteSections ==
    /\ pc = "report"
    /\ output' =
           <<SummaryRow("match", Len(OfType(summary, "success"))),
             SummaryRow("zotero_missing", Len(OfType(summary, "not_found_on_zotero"))),
             SummaryRow("website_missing", Len(OfType(summary, "not_found_on_website"))),
             CaptionRow("success"), ColumnsRow("success")>>
           \o SuccessRows(summary, website_records, zotero_records)
           \o <<CaptionRow("not_found_on_zotero"), ColumnsRow("not_found_on_zotero")>>
           \o WebsiteRows(summary, website_records)
           \o <<CaptionRow("not_found_on_website"), ColumnsRow("not_found_on_website")>>
    /\ pc' = "rows"
    /\ row' = 1
    /\ UNCHANGED <<website_records, zotero_records, match_threshold, scores, raised,
                   idx, zotero_titles, summary>>

\* One iteration of the loop at main.py:55-63 that writes a row, or skips an
\* outcome of another type.
WriteZoteroRow ==
    /\ pc = "rows"
    /\ row <= Len(summary)
    /\ LET match == summary[row]
       IN  IF match.type = "not_found_on_website"
           THEN LET record == zotero_records[match.zotero_record]
                IN  /\ ~AuthorsRaise(record.authors)
                    /\ output' = Append(output,
                           ZoteroRow(record.title,
                                     DropLastTwo(AuthorsLoop(record.authors)),
                                     record.url, Strftime(record.date)))
           ELSE UNCHANGED output
    /\ row' = row + 1
    /\ UNCHANGED <<website_records, zotero_records, match_threshold, scores, pc,
                   raised, idx, zotero_titles, summary>>

\* One iteration of the loop at main.py:55-63 that raises IndexError at main.py:60.
RowRaise ==
    /\ pc = "rows"
    /\ row <= Len(summary)
    /\ summary[row].type = "not_found_on_website"
    /\ AuthorsRaise(zotero_records[summary[row].zotero_record].authors)
    /\ pc' = "error"
    /\ raised' = "IndexError"
    /\ UNCHANGED <<website_records, zotero_records, match_threshold, scores, idx,
                   zotero_titles, summary, output, row>>

\* The end of the loop at main.py:55 and of print_report.
FinishReport ==
    /\ pc = "rows"
    /\ row > Len(summary)
    /\ pc' = "done"
    /\ UNCHANGED <<website_records, zotero_records, match_threshold, scores, raised,
                   idx, zotero_titles, summary, output, row>>

----------------------------------------------------------------------------
(* Specifications *)

\* The matchers considered: equal titles score 100.
Scorers ==
    {s \in [Titles -> [Titles -> ScoreVals]] : \A t \in Titles : s[t][t] = 100}

\* main, main.py:29-33: the two lists as collected, before compare_records.
Init ==
    /\ website_records \in SeqsUpTo({WebRecord(t) : t \in Titles}, MaxWeb)
    /\ zotero_records \in
           SeqsUpTo({ZoteroRecord(t, a) : t \in Titles, a \in PipelineAuthorLists},
                    MaxCat)
    /\ match_threshold \in Thresholds
    /\ scores \in Scorers
    /\ pc = "compare"
    /\ raised = "none"
    /\ idx = 1
    /\ zotero_titles = [j \in 1..Len(zotero_records) |-> zotero_records[j].title]
    /\ summary = <<>>
    /\ output = <<>>
    /\ row = 1

Next ==
    \/ CompareStep
    \/ CompareRaise
    \/ CompareReturn
    \/ WriteSections
    \/ WriteZoteroRow
    \/ RowRaise
    \/ FinishReport

Spec == Init /\ [][Next]_vars

----------------------------------------------------------------------------
(* print_report on its own: any sequence of outcomes over given records *)

Outcomes(web, zotero) ==
    {Match("success", 100, w, z) : w \in DOMAIN web, z \in DOMAIN zotero}
    \cup {Match("not_found_on_zotero", DefaultThreshold, w, 0) : w \in DOMAIN web}
    \cup {Match("not_found_on_website", 0, 0, z) : z \in DOMAIN zotero}

ReportStart ==
    /\ match_threshold = DefaultThreshold
    /\ scores = [q \in Titles |-> [c \in Titles |-> 100]]
    /\ pc = "report"
    /\ raised = "none"
    /\ idx = Len(website_records) + 1
    /\ zotero_titles = <<>>
    /\ output = <<>>
    /\ row = 1

InitReport ==
    /\ website_records = <<WebRecord("a"), WebRecord("b")>>
    /\ zotero_records \in
           {<<ZoteroRecord("a", x), ZoteroRecord("b", y)>> :
                x \in PipelineAuthorLists, y \in PipelineAuthorLists}
    /\ summary \in SeqsUpTo(Outcomes(website_records, zotero_records), MaxOutcomes)
    /\ ReportStart

\* One record that is on Zotero only, with any list of creators.
InitAuthors ==
    /\ website_records = <<>>
    /\ zotero_records \in
           {<<ZoteroRecord("a", a)>> : a \in SeqsUpTo(Creators, MaxAuthors)}
    /\ summary = <<Match("not_found_on_website", 0, 0, 1)>>
    /\ ReportStart

NextReport ==
    \/ WriteSections
    \/ WriteZoteroRow
    \/ RowRaise
    \/ FinishReport

SpecReport == InitReport /\ [][NextReport]_vars

SpecAuthors == InitAuthors /\ [][NextReport]_vars

----------------------------------------------------------------------------
(* Vocabulary of the properties *)

\* compare_records has returned its list (print_report may have raised since).
CompareReturned == pc \in {"report", "rows", "done"} \/ raised = "IndexError"

IndexesOf(type) == {i \in DOMAIN summary : summary[i].type = type}

Count(type) == Cardinality(IndexesOf(type))

\* The position in summary of the k-th outcome of the type.
Nth(type, k) ==
    CHOOSE i \in IndexesOf(type) :
        Cardinality({j \in IndexesOf(type) : j < i}) = k - 1

RowsOfKind(kind) == {i \in DOMAIN output : output[i].kind = kind}

----------------------------------------------------------------------------
(* Properties of compare_records *)

\* C1 (conservation): in the list compare_records returns, the success and
\* not_found_on_zotero outcomes number the website records, and the success and
\* not_found_on_website outcomes number the Zotero records.
Conservation ==
    CompareReturned =>
        /\ Count("success") + Count("not_found_on_zotero") = Len(website_records)
        /\ Count("success") + Count("not_found_on_website") = Len(zotero_records)

ConservationWitness ==
    /\ CompareReturned
    /\ Count("success") > 0
    /\ Count("not_found_on_zotero") > 0
    /\ Count("not_found_on_website") > 0

\* C2 (one-to-one): in the list compare_records returns, no Zotero record and no
\* Zotero title belongs to two success outcomes.
OneToOne ==
    CompareReturned =>
        \A i \in IndexesOf("success") : \A j \in IndexesOf("success") :
            i # j =>
                /\ summary[i].zotero_record # summary[j].zotero_record
                /\ zotero_records[summary[i].zotero_record].title
                       # zotero_records[summary[j].zotero_record].title

\* C3 (partition): in the list compare_records returns, every website record
\* is the web_record of exactly one outcome and every Zotero record is the
\* zotero_record of exactly one outcome.
Partition ==
    CompareReturned =>
        /\ \A w \in DOMAIN website_records :
               Cardinality({i \in DOMAIN summary : summary[i].web_record = w}) = 1
        /\ \A z \in DOMAIN zotero_records :
               Cardinality({i \in DOMAIN summary : summary[i].zotero_record = z}) = 1

\* C4 (empty catalog): with website records and no Zotero record,
\* compare_records does not raise, and what it returns is one
\* not_found_on_zotero outcome of score 0 per website record.
EmptyCatalog ==
    (zotero_records = <<>> /\ website_records # <<>>) =>
        /\ raised # "ValueError"
        /\ CompareReturned =>
               summary = [i \in DOMAIN website_records |->
                              Match("not_found_on_zotero", 0, i, 0)]

\* C5 (never fails): no step of compare_records or print_report raises.
NeverFails == pc # "error"

\* C6 (strict threshold): an iteration of compare_records appends a success
\* outcome exactly when the best score of the pool is above the threshold;
\* otherwise it appends not_found_on_zotero and leaves the pool as it is; the
\* outcome carries the best score either way.
StrictThreshold ==
    [][(pc = "compare" /\ pc' = "compare" /\ Len(summary') = Len(summary) + 1) =>
          LET best == CHOOSE m \in 0..100 :
                          /\ \E j \in DOMAIN zotero_titles :
                                 scores[website_records[idx].title][zotero_titles[j]] = m
                          /\ \A j \in DOMAIN zotero_titles :
                                 scores[website_records[idx].title][zotero_titles[j]] <= m
              outcome == summary'[Len(summary')]
          IN  /\ outcome.ratio = best
              /\ outcome.web_record = idx
              /\ (outcome.type = "success") <=> (best > match_threshold)
              /\ (outcome.type = "not_found_on_zotero") <=> (best <= match_threshold)
              /\ best <= match_threshold => zotero_titles' = zotero_titles
              /\ best > match_threshold => Len(zotero_titles') = Len(zotero_titles) - 1
      ]_vars

StrictThresholdWitness ==
    /\ pc = "compare"
    /\ \E i \in IndexesOf("not_found_on_zotero") : summary[i].ratio = match_threshold
    /\ \E i \in IndexesOf("success") : summary[i].ratio = match_threshold + 5

\* C7 (greedy removal): of two website records that both score above the
\* threshold against the only Zotero title, the first becomes a success with
\* that record and the second becomes not_found_on_zotero.
GreedyRemoval ==
    (/\ Len(website_records) = 2
     /\ Len(zotero_records) = 1
     /\ \A w \in DOMAIN website_records :
            scores[website_records[w].title][zotero_records[1].title] > match_threshold)
    =>  /\ raised # "ValueError"
        /\ CompareReturned =>
               /\ summary[1].type = "success"
               /\ summary[1].web_record = 1
               /\ summary[1].zotero_record = 1
               /\ summary[2].type = "not_found_on_zotero"
               /\ summary[2].web_record = 2

\* C8 (remainder and order): in the list compare_records returns, the
\* not_found_on_website outcomes follow all the others and are the Zotero
\* records without a success outcome, one each, in the order of the Zotero list.
RemainderOrder ==
    CompareReturned =>
        LET matched == {summary[i].zotero_record : i \in IndexesOf("success")}
            left == SelectSeq([z \in DOMAIN zotero_records |-> z],
                              LAMBDA z : z \notin matched)
            n == Len(website_records)
        IN  /\ Len(summary) = n + Len(left)
            /\ \A i \in 1..n : summary[i].type # "not_found_on_website"
            /\ \A k \in DOMAIN left :
                   summary[n + k] = Match("not_found_on_website", 0, 0, left[k])

----------------------------------------------------------------------------
(* Properties of print_report *)

\* C9 (report structure): once print_report has written its sections, the
\* report is the three counts, then the success, not_found_on_zotero and
\* not_found_on_website sections in that order, each with its header, the
\* rows of a section being those of the outcomes of its type in the order of
\* the outcomes; a finished report has one row per outcome, each count being
\* the number of rows of its section.
ReportStructure ==
    (pc \in {"rows", "done"} \/ raised = "IndexError") =>
        LET nM == Count("success")
            nW == Count("not_found_on_zotero")
            nC == Count("not_found_on_website")
            written == Cardinality(RowsOfKind("zotero_row"))
        IN  /\ Len(output) = 9 + nM + nW + written
            /\ written <= nC
            /\ pc = "done" => written = nC
            /\ Cardinality(RowsOfKind("match_row")) = nM
            /\ Cardinality(RowsOfKind("web_row")) = nW
            /\ output[1] = SummaryRow("match", nM)
            /\ output[2] = SummaryRow("zotero_missing", nW)
            /\ output[3] = SummaryRow("website_missing", nC)
            /\ output[4] = CaptionRow("success")
            /\ output[5] = ColumnsRow("success")
            /\ \A k \in 1..nM :
                   LET match == summary[Nth("success", k)]
                   IN  output[5 + k] =
                           MatchRow(website_records[match.web_record].title,
                                    zotero_records[match.zotero_record].title,
                                    "success", match.ratio)
            /\ output[6 + nM] = CaptionRow("not_found_on_zotero")
            /\ output[7 + nM] = ColumnsRow("not_found_on_zotero")
            /\ \A k \in 1..nW :
                   LET match == summary[Nth("not_found_on_zotero", k)]
                   IN  output[7 + nM + k] =
                           WebRow(website_records[match.web_record].title)
            /\ output[8 + nM + nW] = CaptionRow("not_found_on_website")
            /\ output[9 + nM + nW] = ColumnsRow("not_found_on_website")
            /\ \A k \in 1..written :
                   LET match == summary[Nth("not_found_on_website", k)]
                       record == zotero_records[match.zotero_record]
                   IN  /\ output[9 + nM + nW + k].kind = "zotero_row"
                       /\ output[9 + nM + nW + k].title = record.title
                       /\ output[9 + nM + nW + k].url = record.url

ReportStructureWitness ==
    /\ pc = "done"
    /\ Count("success") = 0
    /\ Count("not_found_on_zotero") > 0
    /\ Count("not_found_on_website") > 1

\* first initial + "." + lastName
Initialled(creator) ==
    (IF creator.firstName = <<>> THEN <<>> ELSE <<creator.firstName[1]>>)
    \o <<".">> \o creator.lastName

RECURSIVE Joined(_)
Joined(texts) ==
    IF texts = <<>> THEN <<>>
    ELSE IF Len(texts) = 1 THEN texts[1]
    ELSE texts[1] \o <<",", " ">> \o Joined(Tail(texts))

\* The creators a row is about: those of the record of the outcome it was
\* written for, the rows being in the order of the outcomes.
CreatorsOfRow(i) ==
    LET k == Cardinality({j \in RowsOfKind("zotero_row") : j <= i})
    IN  zotero_records[summary[Nth("not_found_on_website", k)].zotero_record].authors

\* C10 (author filtering): the authors field of a not_found_on_website row is
\* the creators of type "author", in their order, each as first initial, ".",
\* lastName, joined by ", ", with nothing after the last; it is empty when
\* the record has no such creator.
AuthorFiltering ==
    \A i \in RowsOfKind("zotero_row") :
        LET authors == SelectSeq(CreatorsOfRow(i),
                                 LAMBDA c : c.creatorType = "author")
        IN  output[i].authors =
                Joined([j \in DOMAIN authors |-> Initialled(authors[j])])

AuthorFilteringWitness ==
    /\ pc = "done"
    /\ \E i \in RowsOfKind("zotero_row") :
           /\ \E j \in DOMAIN CreatorsOfRow(i) :
                  CreatorsOfRow(i)[j].creatorType = "editor"
           /\ Cardinality({j \in DOMAIN CreatorsOfRow(i) :
                               CreatorsOfRow(i)[j].creatorType = "author"}) > 1

====
